---- MODULE Spec2Model ----
(***************************************************************************)
(* A model of the scrapers of this repository:                             *)
(*   wordpress_scraper.py   WordPressSpider (response gate, error ledger)  *)
(*   propublica_scraper.py  PropublicaLoanSpider (gate, record extractor)  *)
(*   parse_local_html.py    parse_loan_html / extract_loan_data            *)
(* Python strings are sequences of one-character strings, so that lower(), *)
(* strip(), split(), startswith() and the substring test are computed.     *)
(* Timestamps (datetime.now()) are left out of every entry.                *)
(***************************************************************************)
EXTENDS Integers, Sequences, FiniteSets, TLC

\* unit:          the program (or function) under analysis in this behaviour
\* input:         the document or fragment handed to a function unit
\* calls:         the calls made so far
\* scraped_data:  WordPressSpider.scraped_data
\* scraped_loans: PropublicaLoanSpider.scraped_loans
\* errors:        the running spider's self.errors
\* result:        what the last call of a function unit returned
\* last:          the last call: its operation, its argument, the ledgers before it
VARIABLES unit, input, calls, scraped_data, scraped_loans, errors, result, last

vars == <<unit, input, calls, scraped_data, scraped_loans, errors, result, last>>

(* ------------------------------ bounds --------------------------------- *)

\* Calls made on one spider object, or of one function on its input.
MaxCalls == 2

\* Record fragments a boundary selector locates in one document handed to
\* parse_loan_html.
MaxFrags == 3

\* Record fragments located in one document the spider receives.
MaxSpiderFrags == 2

\* Value nodes (div.f5.tiempos-text) inside one record fragment.
MaxNodes == 2

(* ------------------------------ strings -------------------------------- *)

\* The characters of each string literal the model uses.
CharsTable ==
    ("cf-browser-verification" :>
        <<"c","f","-","b","r","o","w","s","e","r","-","v","e","r","i","f","i","c","a","t","i","o","n">>)
    @@ ("cloudflare" :>
        <<"c","l","o","u","d","f","l","a","r","e">>)
    @@ ("cf_clearance" :>
        <<"c","f","_","c","l","e","a","r","a","n","c","e">>)
    @@ ("Checking your browser" :>
        <<"C","h","e","c","k","i","n","g"," ","y","o","u","r"," ","b","r","o","w","s","e","r">>)
    @@ ("DDoS protection by Cloudflare" :>
        <<"D","D","o","S"," ","p","r","o","t","e","c","t","i","o","n"," ","b","y"," ","C","l","o","u","d","f","l","a","r","e">>)
    @@ ("ray ID" :>
        <<"r","a","y"," ","I","D">>)
    @@ ("<h1>My Blog</h1>" :>
        <<"<","h","1",">","M","y"," ","B","l","o","g","<","/","h","1",">">>)
    @@ ("cloud flare hosting tips" :>
        <<"c","l","o","u","d"," ","f","l","a","r","e"," ","h","o","s","t","i","n","g"," ","t","i","p","s">>)
    @@ ("Performance by CLOUDFLARE" :>
        <<"P","e","r","f","o","r","m","a","n","c","e"," ","b","y"," ","C","L","O","U","D","F","L","A","R","E">>)
    @@ ("Ray ID: 8a1" :>
        <<"R","a","y"," ","I","D",":"," ","8","a","1">>)
    @@ ("checking YOUR browser..." :>
        <<"c","h","e","c","k","i","n","g"," ","Y","O","U","R"," ","b","r","o","w","s","e","r",".",".",".">>)
    @@ ("Cloudflare" :>
        <<"C","l","o","u","d","f","l","a","r","e">>)
    @@ ("nginx" :>
        <<"n","g","i","n","x">>)
    @@ ("8a1f-ORD" :>
        <<"8","a","1","f","-","O","R","D">>)
    @@ ("DNSLookupError" :>
        <<"D","N","S","L","o","o","k","u","p","E","r","r","o","r">>)
    @@ ("TimeoutError" :>
        <<"T","i","m","e","o","u","t","E","r","r","o","r">>)
    @@ ("TCPTimedOut" :>
        <<"T","C","P","T","i","m","e","d","O","u","t">>)
    @@ ("TCPTimedOutError" :>
        <<"T","C","P","T","i","m","e","d","O","u","t","E","r","r","o","r">>)
    @@ ("ConnectionRefused" :>
        <<"C","o","n","n","e","c","t","i","o","n","R","e","f","u","s","e","d">>)
    @@ ("ConnectionRefusedError" :>
        <<"C","o","n","n","e","c","t","i","o","n","R","e","f","u","s","e","d","E","r","r","o","r">>)
    @@ ("SSLError" :>
        <<"S","S","L","E","r","r","o","r">>)
    @@ ("ConnectionLost" :>
        <<"C","o","n","n","e","c","t","i","o","n","L","o","s","t">>)
    @@ ("IgnoreRequest" :>
        <<"I","g","n","o","r","e","R","e","q","u","e","s","t">>)
    @@ ("HttpError" :>
        <<"H","t","t","p","E","r","r","o","r">>)
    @@ ("DNSTimeoutError" :>
        <<"D","N","S","T","i","m","e","o","u","t","E","r","r","o","r">>)
    @@ ("SSLErrorOnConnectionRefused" :>
        <<"S","S","L","E","r","r","o","r","O","n","C","o","n","n","e","c","t","i","o","n","R","e","f","u","s","e","d">>)
    @@ ("Request was ignored by middleware or duplicate filter." :>
        <<"R","e","q","u","e","s","t"," ","w","a","s"," ","i","g","n","o","r","e","d"," ","b","y"," ","m","i","d","d","l","e","w","a","r","e"," ","o","r"," ","d","u","p","l","i","c","a","t","e"," ","f","i","l","t","e","r",".">>)
    @@ ("DNS lookup failed for domain." :>
        <<"D","N","S"," ","l","o","o","k","u","p"," ","f","a","i","l","e","d"," ","f","o","r"," ","d","o","m","a","i","n",".">>)
    @@ ("Connection timed out while trying to reach the server." :>
        <<"C","o","n","n","e","c","t","i","o","n"," ","t","i","m","e","d"," ","o","u","t"," ","w","h","i","l","e"," ","t","r","y","i","n","g"," ","t","o"," ","r","e","a","c","h"," ","t","h","e"," ","s","e","r","v","e","r",".">>)
    @@ ("Connection was refused by the server." :>
        <<"C","o","n","n","e","c","t","i","o","n"," ","w","a","s"," ","r","e","f","u","s","e","d"," ","b","y"," ","t","h","e"," ","s","e","r","v","e","r",".">>)
    @@ ("SSL/TLS certificate verification failed." :>
        <<"S","S","L","/","T","L","S"," ","c","e","r","t","i","f","i","c","a","t","e"," ","v","e","r","i","f","i","c","a","t","i","o","n"," ","f","a","i","l","e","d",".">>)
    @@ ("Request failed: " :>
        <<"R","e","q","u","e","s","t"," ","f","a","i","l","e","d",":"," ">>)
    @@ ("Cloudflare anti-bot challenge detected" :>
        <<"C","l","o","u","d","f","l","a","r","e"," ","a","n","t","i","-","b","o","t"," ","c","h","a","l","l","e","n","g","e"," ","d","e","t","e","c","t","e","d">>)
    @@ ("Failed to extract data: " :>
        <<"F","a","i","l","e","d"," ","t","o"," ","e","x","t","r","a","c","t"," ","d","a","t","a",":"," ">>)
    @@ ("Bad Request" :>
        <<"B","a","d"," ","R","e","q","u","e","s","t">>)
    @@ ("Unauthorized" :>
        <<"U","n","a","u","t","h","o","r","i","z","e","d">>)
    @@ ("Forbidden" :>
        <<"F","o","r","b","i","d","d","e","n">>)
    @@ ("Not Found" :>
        <<"N","o","t"," ","F","o","u","n","d">>)
    @@ ("Too Many Requests" :>
        <<"T","o","o"," ","M","a","n","y"," ","R","e","q","u","e","s","t","s">>)
    @@ ("Internal Server Error" :>
        <<"I","n","t","e","r","n","a","l"," ","S","e","r","v","e","r"," ","E","r","r","o","r">>)
    @@ ("Bad Gateway" :>
        <<"B","a","d"," ","G","a","t","e","w","a","y">>)
    @@ ("Service Unavailable" :>
        <<"S","e","r","v","i","c","e"," ","U","n","a","v","a","i","l","a","b","l","e">>)
    @@ ("HTTP Error " :>
        <<"H","T","T","P"," ","E","r","r","o","r"," ">>)
    @@ ("HTTP " :>
        <<"H","T","T","P"," ">>)
    @@ (" error" :>
        <<" ","e","r","r","o","r">>)
    @@ ("No loan entries found on page. The page structure may have changed." :>
        <<"N","o"," ","l","o","a","n"," ","e","n","t","r","i","e","s"," ","f","o","u","n","d"," ","o","n"," ","p","a","g","e","."," ","T","h","e"," ","p","a","g","e"," ","s","t","r","u","c","t","u","r","e"," ","m","a","y"," ","h","a","v","e"," ","c","h","a","n","g","e","d",".">>)
    @@ ("Failed to extract loan " :>
        <<"F","a","i","l","e","d"," ","t","o"," ","e","x","t","r","a","c","t"," ","l","o","a","n"," ">>)
    @@ (": " :>
        <<":"," ">>)
    @@ ("boom" :>
        <<"b","o","o","m">>)
    @@ ("connection failed" :>
        <<"c","o","n","n","e","c","t","i","o","n"," ","f","a","i","l","e","d">>)
    @@ ("Location" :>
        <<"L","o","c","a","t","i","o","n">>)
    @@ ("Loan Status" :>
        <<"L","o","a","n"," ","S","t","a","t","u","s">>)
    @@ ("Loan Amount" :>
        <<"L","o","a","n"," ","A","m","o","u","n","t">>)
    @@ ("Date Approved" :>
        <<"D","a","t","e"," ","A","p","p","r","o","v","e","d">>)
    @@ ("Lender" :>
        <<"L","e","n","d","e","r">>)
    @@ ("Forgiven" :>
        <<"F","o","r","g","i","v","e","n">>)
    @@ ("Active" :>
        <<"A","c","t","i","v","e">>)
    @@ ("Paid" :>
        <<"P","a","i","d">>)
    @@ ("Exempt" :>
        <<"E","x","e","m","p","t">>)
    @@ ("Cancelled" :>
        <<"C","a","n","c","e","l","l","e","d">>)
    @@ ("Jan" :>
        <<"J","a","n">>)
    @@ ("Feb" :>
        <<"F","e","b">>)
    @@ ("March" :>
        <<"M","a","r","c","h">>)
    @@ ("April" :>
        <<"A","p","r","i","l">>)
    @@ ("May" :>
        <<"M","a","y">>)
    @@ ("June" :>
        <<"J","u","n","e">>)
    @@ ("July" :>
        <<"J","u","l","y">>)
    @@ ("Aug" :>
        <<"A","u","g">>)
    @@ ("Sept" :>
        <<"S","e","p","t">>)
    @@ ("Oct" :>
        <<"O","c","t">>)
    @@ ("Nov" :>
        <<"N","o","v">>)
    @@ ("Dec" :>
        <<"D","e","c">>)
    @@ ("Austin, TX" :>
        <<"A","u","s","t","i","n",","," ","T","X">>)
    @@ ("Some Place, Texas" :>
        <<"S","o","m","e"," ","P","l","a","c","e",","," ","T","e","x","a","s">>)
    @@ ("$1,234" :>
        <<"$","1",",","2","3","4">>)
    @@ ("$500" :>
        <<"$","5","0","0">>)
    @@ (" Paid in Full " :>
        <<" ","P","a","i","d"," ","i","n"," ","F","u","l","l"," ">>)
    @@ ("April 3, 2020" :>
        <<"A","p","r","i","l"," ","3",","," ","2","0","2","0">>)
    @@ ("Acme LLC" :>
        <<"A","c","m","e"," ","L","L","C">>)
    @@ ("   " :>
        <<" "," "," ">>)
    @@ ("N/A" :>
        <<"N","/","A">>)
    @@ ("," :>
        <<",">>)
    @@ ("$" :>
        <<"$">>)
    @@ ("CloudflareProtection" :>
        <<"C","l","o","u","d","f","l","a","r","e","P","r","o","t","e","c","t","i","o","n">>)
    @@ ("ExtractionError" :>
        <<"E","x","t","r","a","c","t","i","o","n","E","r","r","o","r">>)
    @@ ("HTTPError" :>
        <<"H","T","T","P","E","r","r","o","r">>)
    @@ ("NoDataFound" :>
        <<"N","o","D","a","t","a","F","o","u","n","d">>)
    @@ ("HTTP Error 418" :>
        <<"H","T","T","P"," ","E","r","r","o","r"," ","4","1","8">>)
    @@ ("$1,234,567.00" :>
        <<"$","1",",","2","3","4",",","5","6","7",".","0","0">>)
    @@ ("nan" :>
        <<"n","a","n">>)
    @@ ("inf" :>
        <<"i","n","f">>)
    @@ ("infinity" :>
        <<"i","n","f","i","n","i","t","y">>)
    @@ ("CrawlerError" :>
        <<"C","r","a","w","l","e","r","E","r","r","o","r">>)
    @@ ("Crawler failed: " :>
        <<"C","r","a","w","l","e","r"," ","f","a","i","l","e","d",":"," ">>)
    @@ ("Unknown" :>
        <<"U","n","k","n","o","w","n">>)
    @@ (" Hello " :>
        <<" ","H","e","l","l","o"," ">>)

\* The string literal s as a sequence of characters.
Chars(s) == CharsTable[s]

LowerMap ==
    [ A |-> "a", B |-> "b", C |-> "c", D |-> "d", E |-> "e", F |-> "f", G |-> "g",
      H |-> "h", I |-> "i", J |-> "j", K |-> "k", L |-> "l", M |-> "m", N |-> "n",
      O |-> "o", P |-> "p", Q |-> "q", R |-> "r", S |-> "s", T |-> "t", U |-> "u",
      V |-> "v", W |-> "w", X |-> "x", Y |-> "y", Z |-> "z" ]

\* The lower-case form of one character.
LowerChar(c) == IF c \in DOMAIN LowerMap THEN LowerMap[c] ELSE c

\* str.lower()
Lower(s) == [i \in 1..Len(s) |-> LowerChar(s[i])]

\* needle in hay
Contains(hay, needle) ==
    \E i \in 0..(Len(hay) - Len(needle)) :
        SubSeq(hay, i + 1, i + Len(needle)) = needle

\* str.startswith(prefix)
StartsWith(s, prefix) ==
    Len(s) >= Len(prefix) /\ SubSeq(s, 1, Len(prefix)) = prefix

Whitespace == {" ", "\t", "\n", "\r"}

\* str.strip()
Strip(s) ==
    LET keep == {i \in 1..Len(s) : s[i] \notin Whitespace}
    IN  IF keep = {} THEN <<>>
        ELSE LET lo == CHOOSE i \in keep : \A j \in keep : i <= j
                 hi == CHOOSE i \in keep : \A j \in keep : i >= j
             IN  SubSeq(s, lo, hi)

\* The positions of character c in s.
Positions(s, c) == {i \in 1..Len(s) : s[i] = c}

\* len(s.split(c))
SplitCount(s, c) == Cardinality(Positions(s, c)) + 1

\* s.split(c)[1], for a string holding exactly one c
SplitSecond(s, c) ==
    LET p == CHOOSE i \in Positions(s, c) : TRUE
    IN  SubSeq(s, p + 1, Len(s))

DigitChars == <<"0","1","2","3","4","5","6","7","8","9">>

\* str(n) of a natural number, as the f-strings format a status or an index
RECURSIVE Digits(_)
Digits(n) ==
    IF n < 10 THEN <<DigitChars[n + 1]>>
    ELSE Digits(n \div 10) \o <<DigitChars[(n % 10) + 1]>>

\* The sequences over S of length at most n.
SeqUpTo(S, n) == UNION { [1..k -> S] : k \in 0..n }

(* --------------------------- WordPressSpider --------------------------- *)

\* The one start URL of a spider (start_urls = [url]).
StartUrl == "https://example.com/blog"

\* A response: status, body text, the Server header's value (empty when the
\* header is absent: headers.get('Server', b'')) and the CF-RAY header as an
\* optional value: <<>> when absent (None), <<v>> when present with value v.
\* parse is modelled as the callback it is, for a response of any status: the
\* request's meta lists 403, 503 and 520..524 in handle_httpstatus_list, and
\* which other statuses the framework hands to the callback is decided outside
\* this repository.
Statuses == {200, 404, 418, 503, 520}

Bodies ==
    { <<>>,
      Chars("cloud flare hosting tips"),
      Chars("Performance by CLOUDFLARE"),
      Chars("checking YOUR browser...") }

Servers == { <<>>, Chars("Cloudflare") }

CfRays == { <<>>, << <<>> >>, << Chars("8a1f-ORD") >> }

Responses == [status : Statuses, text : Bodies, server : Servers, cf_ray : CfRays]

cloudflare_indicators ==
    << Chars("cf-browser-verification"),
       Chars("cloudflare"),
       Chars("cf_clearance"),
       Chars("Checking your browser"),
       Chars("DDoS protection by Cloudflare"),
       Chars("ray ID") >>

cloudflare_statuses == {503, 520, 521, 522, 523, 524}

\* for indicator in cloudflare_indicators: indicator.lower() in body_text
body_has_indicator(body_text) ==
    \E k \in 1..Len(cloudflare_indicators) :
        Contains(body_text, Lower(cloudflare_indicators[k]))

\* Mutant of header_rule: the status is not looked at.
header_rule_any_status(response) ==
    /\ Contains(Lower(response.server), Chars("cloudflare"))
    /\ response.cf_ray # <<>>
    /\ response.cf_ray[1] # <<>>

\* The header rule: 'cloudflare' in server_header.lower(), then a truthy
\* CF-RAY value and status >= 400.
header_rule(response) ==
    /\ Contains(Lower(response.server), Chars("cloudflare"))
    /\ response.cf_ray # <<>>
    /\ response.cf_ray[1] # <<>>
    /\ response.status >= 400

\* Mutant of _is_cloudflare_challenge: the body is searched as it is, its
\* letter case kept.
_is_cloudflare_challenge_case_sensitive(response) ==
    LET body_text == response.text
    IN  IF response.status \in cloudflare_statuses THEN TRUE
        ELSE IF body_has_indicator(body_text) THEN TRUE
        ELSE header_rule(response)

\* Mutant of _is_cloudflare_challenge: the list of statuses is not looked at.
_is_cloudflare_challenge_no_status_list(response) ==
    LET body_text == IF response.text # <<>> THEN Lower(response.text) ELSE <<>>
    IN  IF body_has_indicator(body_text) THEN TRUE
        ELSE header_rule(response)

_is_cloudflare_challenge(response) ==
    LET body_text == IF response.text # <<>> THEN Lower(response.text) ELSE <<>>
    IN  IF response.status \in cloudflare_statuses THEN TRUE
        ELSE IF body_has_indicator(body_text) THEN TRUE
        ELSE header_rule(response)

\* The responses _is_cloudflare_challenge returns True for, computed once.
ChallengeResponses == {r \in Responses : _is_cloudflare_challenge(r)}

error_messages ==
    [ s \in {400, 401, 403, 404, 429, 500, 502, 503} |->
        CASE s = 400 -> << Chars("Bad Request"),
                           "The server couldn't understand the request. Check URL format." >>
          [] s = 401 -> << Chars("Unauthorized"),
                           "Authentication required. The page might need login credentials." >>
          [] s = 403 -> << Chars("Forbidden"),
                           "Access denied. The server refuses to fulfill the request." >>
          [] s = 404 -> << Chars("Not Found"),
                           "The requested page doesn't exist. Check if the URL is correct." >>
          [] s = 429 -> << Chars("Too Many Requests"),
                           "Rate limited. Add delays between requests." >>
          [] s = 500 -> << Chars("Internal Server Error"),
                           "Server-side error. The website might be experiencing issues." >>
          [] s = 502 -> << Chars("Bad Gateway"),
                           "The server received an invalid response. Try again later." >>
          [] s = 503 -> << Chars("Service Unavailable"),
                           "Server temporarily unavailable. Could be maintenance or overload." >> ]

\* Mutant of error_messages_get: the table is not consulted.
error_messages_get_generic(status) ==
    << Chars("HTTP Error ") \o Digits(status), "Unexpected HTTP error occurred." >>

\* Mutant of error_messages_get: the default message leaves the status out.
error_messages_get_no_status(status) ==
    IF status \in DOMAIN error_messages THEN error_messages[status]
    ELSE << Chars("HTTP Error "), "Unexpected HTTP error occurred." >>

\* error_messages.get(status, (f"HTTP Error {status}", "Unexpected ..."))
error_messages_get(status) ==
    IF status \in DOMAIN error_messages THEN error_messages[status]
    ELSE << Chars("HTTP Error ") \o Digits(status), "Unexpected HTTP error occurred." >>

\* The entry _handle_http_error appends to self.errors.
_handle_http_error(response) ==
    LET status == response.status
        found == error_messages_get(status)
    IN  [ url |-> StartUrl,
          error_type |-> Chars("HTTPError"),
          status_code |-> status,
          message |-> found[1],
          suggestion |-> found[2] ]

\* The entry parse appends for a detected challenge page (no suggestion key).
cloudflare_entry(response) ==
    [ url |-> StartUrl,
      error_type |-> Chars("CloudflareProtection"),
      message |-> Chars("Cloudflare anti-bot challenge detected"),
      status_code |-> response.status ]

\* _extract_page_data either returns the page's data or raises; what it
\* extracts from the body is not part of the gate.
ExtractionOutcomes == {"ok", "raise"}

_extract_page_data(response) ==
    [ url |-> StartUrl, status_code |-> response.status ]

wp_extraction_error_entry ==
    [ url |-> StartUrl,
      error_type |-> Chars("ExtractionError"),
      message |-> Chars("Failed to extract data: ") \o Chars("boom") ]

\* Mutant of WordPressSpider_parse_ledgers: the item is appended before the
\* extraction has returned, so an extraction that raises leaves an item and an
\* entry.
WordPressSpider_parse_ledgers_append_first(errs, data, response, extraction) ==
    IF response \in ChallengeResponses
    THEN [ errors |-> Append(errs, cloudflare_entry(response)), scraped_data |-> data ]
    ELSE IF response.status >= 400
    THEN [ errors |-> Append(errs, _handle_http_error(response)), scraped_data |-> data ]
    ELSE IF extraction = "ok"
    THEN [ errors |-> errs, scraped_data |-> Append(data, _extract_page_data(response)) ]
    ELSE [ errors |-> Append(errs, wp_extraction_error_entry),
           scraped_data |-> Append(data, _extract_page_data(response)) ]

\* WordPressSpider.parse as a function of the two ledgers: the ledgers after
\* the call on `response`, `extraction` being what _extract_page_data does.
WordPressSpider_parse_ledgers(errs, data, response, extraction) ==
    IF response \in ChallengeResponses
    THEN [ errors |-> Append(errs, cloudflare_entry(response)), scraped_data |-> data ]
    ELSE IF response.status >= 400
    THEN [ errors |-> Append(errs, _handle_http_error(response)), scraped_data |-> data ]
    ELSE IF extraction = "ok"
    THEN [ errors |-> errs, scraped_data |-> Append(data, _extract_page_data(response)) ]
    ELSE [ errors |-> Append(errs, wp_extraction_error_entry), scraped_data |-> data ]

\* Whether parse reaches the extraction for this response.
wp_proceeds(response) == response \notin ChallengeResponses /\ response.status < 400

WordPressSpider_parse(response, extraction) ==
    /\ unit = "WordPressSpider"
    /\ calls < MaxCalls
    /\ LET after == WordPressSpider_parse_ledgers(errors, scraped_data, response, extraction)
       IN  /\ errors' = after.errors
           /\ scraped_data' = after.scraped_data
    /\ calls' = calls + 1
    /\ last' = [ op |-> "parse", response |-> response, extraction |-> extraction,
                 errors0 |-> errors, data0 |-> scraped_data ]
    /\ UNCHANGED <<unit, input, scraped_loans, result>>

\* A request failure handed to the errback: the exception's class name, whether
\* it is an IgnoreRequest (failure.check(IgnoreRequest); HttpError is a
\* subclass), and its message (failure.getErrorMessage()).
Failures ==
    { [ type |-> Chars(t), ignore |-> FALSE, text |-> Chars("connection failed") ] :
        t \in { "DNSLookupError", "TimeoutError", "TCPTimedOutError",
                "ConnectionRefusedError", "SSLError", "ConnectionLost",
                "DNSTimeoutError", "SSLErrorOnConnectionRefused" } }
    \cup
    { [ type |-> Chars(t), ignore |-> TRUE, text |-> Chars("connection failed") ] :
        t \in { "IgnoreRequest", "HttpError" } }

\* message and suggestion chosen by WordPressSpider.handle_error
wp_failure_message(failure) ==
    LET error_type == failure.type
    IN  IF failure.ignore
        THEN << Chars("Request was ignored by middleware or duplicate filter."),
                "Check if URL is accessible and not blocked by robots.txt." >>
        ELSE IF Contains(error_type, Chars("DNSLookupError"))
        THEN << Chars("DNS lookup failed for domain."),
                "1. Check if the domain name is spelled correctly." >>
        ELSE IF Contains(error_type, Chars("TimeoutError"))
                \/ Contains(error_type, Chars("TCPTimedOut"))
        THEN << Chars("Connection timed out while trying to reach the server."),
                "1. The server might be slow or overloaded." >>
        ELSE IF Contains(error_type, Chars("ConnectionRefused"))
        THEN << Chars("Connection was refused by the server."),
                "1. The server might be down." >>
        ELSE IF Contains(error_type, Chars("SSLError"))
        THEN << Chars("SSL/TLS certificate verification failed."),
                "1. The site's SSL certificate might be expired or invalid." >>
        ELSE << Chars("Request failed: ") \o failure.text,
                "Check the error details and try again." >>

WordPressSpider_handle_error_entry(failure) ==
    LET chosen == wp_failure_message(failure)
    IN  [ url |-> StartUrl,
          error_type |-> failure.type,
          message |-> chosen[1],
          suggestion |-> chosen[2] ]

WordPressSpider_handle_error(failure) ==
    /\ unit = "WordPressSpider"
    /\ calls < MaxCalls
    /\ errors' = Append(errors, WordPressSpider_handle_error_entry(failure))
    /\ calls' = calls + 1
    /\ last' = [ op |-> "handle_error", failure |-> failure,
                 errors0 |-> errors, data0 |-> scraped_data ]
    /\ UNCHANGED <<unit, input, scraped_data, scraped_loans, result>>

(* ---------------------- _extract_wordpress_content -------------------- *)

MaxTexts == 2

\* WP_SELECTORS, for the field 'post_meta' (each of the eight fields has such a
\* list and goes through the same loop).
WP_SELECTORS == [ post_meta |-> << ".entry-meta", ".post-meta", ".byline" >> ]

\* A text node: whitespace only, or a word with blanks around it.
Texts == { Chars("   "), Chars(" Hello ") }

\* A page, as response.css(f'{selector}::text').getall() sees it: the text
\* nodes each selector matches.
Pages == [ { ".entry-meta", ".post-meta", ".byline" } -> SeqUpTo(Texts, MaxTexts) ]

\* [c.strip() for c in content if c.strip()]
stripped_texts(content) ==
    SelectSeq([i \in 1..Len(content) |-> Strip(content[i])], LAMBDA c : c # <<>>)

\* for selector in selectors: ... if content: ...; break / else: []
RECURSIVE select_content(_, _)
select_content(selectors, page) ==
    IF selectors = <<>> THEN <<>>
    ELSE LET content == page[Head(selectors)]
         IN  IF content # <<>> THEN stripped_texts(content)
             ELSE select_content(Tail(selectors), page)

\* WordPressSpider._extract_wordpress_content(response): the fields of
\* WP_SELECTORS (main_content_text and is_wordpress are left out).
_extract_wordpress_content(page) ==
    [ field \in DOMAIN WP_SELECTORS |-> select_content(WP_SELECTORS[field], page) ]

call__extract_wordpress_content ==
    /\ unit = "_extract_wordpress_content"
    /\ calls = 0
    /\ result' = _extract_wordpress_content(input)
    /\ calls' = calls + 1
    /\ last' = [ op |-> "_extract_wordpress_content" ]
    /\ UNCHANGED <<unit, input, scraped_data, scraped_loans, errors>>

(* ------------------- record fragments and documents -------------------- *)

\* A value node of a fragment: one div.f5.tiempos-text text, in document
\* order.  block says whether it sits in a div[class*="w-"] block of the
\* fragment's flex container, and label is then the block's div.f7 text.  A
\* fragment without a flex container has no node with block = TRUE.
Labels ==
    { Chars("Location"), Chars("Loan Status"), Chars("Loan Amount"),
      Chars("Date Approved") }

Values ==
    { <<>>, Chars("Austin, TX"), Chars("Some Place, Texas"), Chars("$1,234"),
      Chars("$500"), Chars(" Paid in Full "), Chars("April 3, 2020") }

NodeKinds ==
    { [block |-> FALSE, label |-> <<>>, value |-> v] : v \in Values }
    \cup
    { [block |-> TRUE, label |-> l, value |-> v] : l \in Labels, v \in Values }

\* The text of the recipient link: a name, or whitespace only.
Recipients == { Chars("Acme LLC"), Chars("   ") }

\* A fragment (one <li>): the recipient link's text, the value nodes, and
\* whether extracting from it raises.
Fragments ==
    [ recipient : Recipients, nodes : SeqUpTo(NodeKinds, MaxNodes), raises : {FALSE} ]

Node(label, value) == [block |-> TRUE, label |-> Chars(label), value |-> Chars(value)]

FreeNode(value) == [block |-> FALSE, label |-> <<>>, value |-> Chars(value)]

\* The fragments documents are built from.
FragStructural ==
    [ recipient |-> Chars("Acme LLC"),
      nodes |-> << Node("Location", "Austin, TX"), Node("Loan Amount", "$500") >>,
      raises |-> FALSE ]

FragHeuristic ==
    [ recipient |-> Chars("Acme LLC"),
      nodes |-> << FreeNode("$1,234"), FreeNode("April 3, 2020") >>,
      raises |-> FALSE ]

FragBare ==
    [ recipient |-> Chars("Acme LLC"), nodes |-> <<>>, raises |-> FALSE ]

FragNoRecipient ==
    [ recipient |-> Chars("   "),
      nodes |-> << Node("Location", "Austin, TX") >>,
      raises |-> FALSE ]

FragRaises ==
    [ recipient |-> Chars("Acme LLC"),
      nodes |-> << Node("Location", "Austin, TX") >>,
      raises |-> TRUE ]

FragRaisesNoRecipient ==
    [ recipient |-> Chars("   "), nodes |-> <<>>, raises |-> TRUE ]

DocFragments ==
    { FragStructural, FragHeuristic, FragBare, FragNoRecipient, FragRaises,
      FragRaisesNoRecipient }

\* What the alternative boundary selector can locate.
AltLists == { <<>>, << FragHeuristic >> }

\* A document, as the two boundary selectors see it: the fragments
\* 'li.list.pt3' locates and those the alternative selector locates.
Documents == [ primary : SeqUpTo(DocFragments, MaxFrags), alt : AltLists ]

(* ------------------------------ parse_amount --------------------------- *)

MaxAmountLen == 3

\* The characters amount strings are built from, and the amount strings: all
\* strings of up to MaxAmountLen of these characters, and some longer ones.
AmountChars == { "$", ",", " ", ".", "0", "1", "-" }

AmountStrings ==
    SeqUpTo(AmountChars, MaxAmountLen)
    \cup { Chars("$1,234,567.00"), Chars("$1,234"), Chars("$500"), Chars("N/A"),
           Chars("nan"), Chars("Austin, TX") }

DigitValue ==
    ("0" :> 0) @@ ("1" :> 1) @@ ("2" :> 2) @@ ("3" :> 3) @@ ("4" :> 4)
    @@ ("5" :> 5) @@ ("6" :> 6) @@ ("7" :> 7) @@ ("8" :> 8) @@ ("9" :> 9)

AllDigits(s) == \A i \in 1..Len(s) : s[i] \in DOMAIN DigitValue

\* The number a string of decimal digits writes.
RECURSIVE IntOf(_)
IntOf(ds) ==
    IF ds = <<>> THEN 0
    ELSE 10 * IntOf(SubSeq(ds, 1, Len(ds) - 1)) + DigitValue[ds[Len(ds)]]

\* The digits after the point, without the zeros that end them.
RECURSIVE Fraction(_)
Fraction(ds) ==
    IF ds # <<>> /\ ds[Len(ds)] = "0" THEN Fraction(SubSeq(ds, 1, Len(ds) - 1))
    ELSE ds

\* What parse_amount can give: None, a float (its sign, its integer part and
\* the digits of its fraction), an infinity or a NaN; "ValueError" is float()
\* raising.
Outcome(tag, negative, int, frac) ==
    [ tag |-> tag, negative |-> negative, int |-> int, frac |-> frac ]

None == Outcome("None", FALSE, 0, <<>>)

ValueError == Outcome("ValueError", FALSE, 0, <<>>)

\* re.sub(r'[$,\s]', '', amount_str)
re_sub(amount_str) ==
    SelectSeq(amount_str, LAMBDA c : c \notin ({"$", ","} \cup Whitespace))

\* float(cleaned) for a string without whitespace: an optional sign, then
\* inf, infinity or nan in any letter case, or decimal digits with at most one
\* point and at least one digit. (An exponent or an underscore between digits
\* is accepted by float() too; no amount string of the model has one.)
float(cleaned) ==
    LET signed == cleaned # <<>> /\ cleaned[1] \in {"+", "-"}
        negative == signed /\ cleaned[1] = "-"
        body == IF signed THEN Tail(cleaned) ELSE cleaned
        points == Positions(body, ".")
    IN  IF Lower(body) \in { Chars("inf"), Chars("infinity") }
        THEN Outcome("inf", negative, 0, <<>>)
        ELSE IF Lower(body) = Chars("nan")
        THEN Outcome("nan", negative, 0, <<>>)
        ELSE IF Cardinality(points) > 1 THEN ValueError
        ELSE LET p == IF points = {} THEN Len(body) + 1
                      ELSE CHOOSE i \in points : TRUE
                 whole == SubSeq(body, 1, p - 1)
                 part == SubSeq(body, p + 1, Len(body))
             IN  IF AllDigits(whole) /\ AllDigits(part) /\ Len(whole) + Len(part) >= 1
                 THEN Outcome("float", negative, IntOf(whole), Fraction(part))
                 ELSE ValueError

\* Mutant of parse_amount: the try has no except.
parse_amount_uncaught(amount_str) ==
    IF amount_str = <<>> THEN None
    ELSE float(re_sub(amount_str))

\* parse_amount(amount_str) of parse_local_html.py
parse_amount(amount_str) ==
    IF amount_str = <<>> THEN None
    ELSE LET parsed == float(re_sub(amount_str))
         IN  IF parsed = ValueError THEN None ELSE parsed

\* PropublicaLoanSpider._parse_amount(amount_str)
_parse_amount(amount_str) ==
    IF amount_str = <<>> THEN None
    ELSE LET parsed == float(re_sub(amount_str))
         IN  IF parsed = ValueError THEN None ELSE parsed

call_parse_amount ==
    /\ unit = "parse_amount"
    /\ calls = 0
    /\ result' = parse_amount(input)
    /\ calls' = calls + 1
    /\ last' = [ op |-> "parse_amount" ]
    /\ UNCHANGED <<unit, input, scraped_data, scraped_loans, errors>>

call__parse_amount ==
    /\ unit = "parse_amount"
    /\ calls = 0
    /\ result' = _parse_amount(input)
    /\ calls' = calls + 1
    /\ last' = [ op |-> "_parse_amount" ]
    /\ UNCHANGED <<unit, input, scraped_data, scraped_loans, errors>>

(* -------------------------- the record extractor ----------------------- *)

EmptyFields ==
    [ location |-> <<>>, loan_status |-> <<>>, loan_amount |-> <<>>,
      date_approved |-> <<>> ]

\* for block in flex_container.css('div[class*="w-"]'): ... (the same code in
\* parse_local_html.py and, at lines 179-192, in propublica_scraper.py)
RECURSIVE structural_pass(_, _)
structural_pass(blocks, f) ==
    IF blocks = <<>> THEN f
    ELSE LET block == Head(blocks)
             label == Strip(block.label)
             value == IF block.value # <<>> THEN Strip(block.value) ELSE block.value
             g == IF Contains(label, Chars("Location"))
                    THEN [f EXCEPT !.location = value]
                  ELSE IF Contains(label, Chars("Loan Status"))
                    THEN [f EXCEPT !.loan_status = value]
                  ELSE IF Contains(label, Chars("Loan Amount"))
                    THEN [f EXCEPT !.loan_amount = value]
                  ELSE IF Contains(label, Chars("Date Approved"))
                    THEN [f EXCEPT !.date_approved = value]
                  ELSE f
         IN  structural_pass(Tail(blocks), g)

\* The blocks of the fragment's flex container.
blocks_of(item) == SelectSeq(item.nodes, LAMBDA n : n.block)

\* The fields after the structural pass alone.
structural_fields(item) == structural_pass(blocks_of(item), EmptyFields)

\* all_values = [v.strip() for v in ...getall() if v.strip()]
all_values_of(item) ==
    LET stripped == [i \in 1..Len(item.nodes) |-> Strip(item.nodes[i].value)]
    IN  SelectSeq(stripped, LAMBDA v : v # <<>>)

status_keywords ==
    { Chars("Forgiven"), Chars("Active"), Chars("Paid"), Chars("Exempt"),
      Chars("Cancelled") }

_status_keywords == { Chars("Forgiven"), Chars("Active"), Chars("Paid") }

months ==
    { Chars("Jan"), Chars("Feb"), Chars("March"), Chars("April"), Chars("May"),
      Chars("June"), Chars("July"), Chars("Aug"), Chars("Sept"), Chars("Oct"),
      Chars("Nov"), Chars("Dec") }

\* ',' in val and len(val.split(',')) == 2
two_segments(val) == Contains(val, Chars(",")) /\ SplitCount(val, ",") = 2

\* Mutant of heuristic_step: the location branch does not ask whether a
\* location was already found.
heuristic_step_overwrites(f, val) ==
    IF two_segments(val)
    THEN IF Len(Strip(SplitSecond(val, ","))) = 2
         THEN [f EXCEPT !.location = val]
         ELSE f
    ELSE IF f.loan_amount = <<>> /\ StartsWith(val, Chars("$"))
    THEN [f EXCEPT !.loan_amount = val]
    ELSE IF f.loan_status = <<>> /\ \E keyword \in status_keywords : Contains(val, keyword)
    THEN [f EXCEPT !.loan_status = val]
    ELSE IF f.date_approved = <<>> /\ \E month \in months : Contains(val, month)
    THEN [f EXCEPT !.date_approved = val]
    ELSE f

\* One round of parse_local_html.py's loop "for val in all_values".
heuristic_step(f, val) ==
    IF f.location = <<>> /\ two_segments(val)
    THEN IF Len(Strip(SplitSecond(val, ","))) = 2
         THEN [f EXCEPT !.location = val]
         ELSE f
    ELSE IF f.loan_amount = <<>> /\ StartsWith(val, Chars("$"))
    THEN [f EXCEPT !.loan_amount = val]
    ELSE IF f.loan_status = <<>> /\ \E keyword \in status_keywords : Contains(val, keyword)
    THEN [f EXCEPT !.loan_status = val]
    ELSE IF f.date_approved = <<>> /\ \E month \in months : Contains(val, month)
    THEN [f EXCEPT !.date_approved = val]
    ELSE f

RECURSIVE heuristic_pass(_, _)
heuristic_pass(all_values, f) ==
    IF all_values = <<>> THEN f
    ELSE heuristic_pass(Tail(all_values), heuristic_step(f, Head(all_values)))

\* parse_local_html.py: "if not location or not loan_amount:"
heuristic_fields(item, f) ==
    IF f.location = <<>> \/ f.loan_amount = <<>>
    THEN heuristic_pass(all_values_of(item), f)
    ELSE f

\* Mutant of extract_loan_data: the record carries the position counted
\* from 0.
extract_loan_data_zero_based(item, index) ==
    LET f == heuristic_fields(item, structural_fields(item))
    IN  [ index |-> index,
          recipient |-> Strip(item.recipient),
          location |-> f.location,
          loan_status |-> f.loan_status,
          loan_amount |-> f.loan_amount,
          loan_amount_numeric |-> parse_amount(f.loan_amount),
          date_approved |-> f.date_approved ]

\* extract_loan_data(item, index) of parse_local_html.py, for a fragment that
\* does not raise (detail_url is left out).
extract_loan_data(item, index) ==
    LET f == heuristic_fields(item, structural_fields(item))
    IN  [ index |-> index + 1,
          recipient |-> Strip(item.recipient),
          location |-> f.location,
          loan_status |-> f.loan_status,
          loan_amount |-> f.loan_amount,
          loan_amount_numeric |-> parse_amount(f.loan_amount),
          date_approved |-> f.date_approved ]

\* One round of propublica_scraper.py's loop "for val in all_values".
_heuristic_step(f, val) ==
    IF f.location = <<>> /\ two_segments(val)
    THEN [f EXCEPT !.location = val]
    ELSE IF f.loan_amount = <<>> /\ StartsWith(val, Chars("$"))
    THEN [f EXCEPT !.loan_amount = val]
    ELSE IF f.loan_status = <<>> /\ \E keyword \in _status_keywords : Contains(val, keyword)
    THEN [f EXCEPT !.loan_status = val]
    ELSE IF f.date_approved = <<>> /\ \E month \in months : Contains(val, month)
    THEN [f EXCEPT !.date_approved = val]
    ELSE f

RECURSIVE _heuristic_pass(_, _)
_heuristic_pass(all_values, f) ==
    IF all_values = <<>> THEN f
    ELSE _heuristic_pass(Tail(all_values), _heuristic_step(f, Head(all_values)))

\* propublica_scraper.py: "if not location and not loan_amount:"
_heuristic_fields(item, f) ==
    IF f.location = <<>> /\ f.loan_amount = <<>>
    THEN _heuristic_pass(all_values_of(item), f)
    ELSE f

\* PropublicaLoanSpider._extract_loan_data(item, response, index)
_extract_loan_data(item, index) ==
    LET f == _heuristic_fields(item, structural_fields(item))
    IN  [ index |-> index + 1,
          recipient |-> Strip(item.recipient),
          location |-> f.location,
          loan_status |-> f.loan_status,
          loan_amount |-> f.loan_amount,
          loan_amount_numeric |-> _parse_amount(f.loan_amount),
          date_approved |-> f.date_approved ]

(* ----------------------------- parse_loan_html ------------------------ *)

\* The entry recorded for the fragment at enumerate() position idx.
extraction_error_entry(idx) ==
    [ error_type |-> Chars("ExtractionError"),
      message |-> Chars("Failed to extract loan ") \o Digits(idx)
                  \o Chars(": ") \o Chars("boom") ]

\* loan_items after the boundary selector and its fallback.
loan_items_of(document) ==
    IF document.primary # <<>> THEN document.primary ELSE document.alt

\* Mutant of parse_loan_items: the exception is caught around the loop, so
\* the first fragment that raises ends it.
RECURSIVE parse_loan_items_stop_at_raise(_, _, _, _)
parse_loan_items_stop_at_raise(loan_items, idx, loans, errs) ==
    IF idx >= Len(loan_items) THEN [ loans |-> loans, errors |-> errs ]
    ELSE LET item == loan_items[idx + 1]
         IN  IF item.raises
             THEN [ loans |-> loans,
                    errors |-> Append(errs, extraction_error_entry(idx)) ]
             ELSE LET loan_data == extract_loan_data(item, idx)
                  IN  IF loan_data.recipient # <<>>
                      THEN parse_loan_items_stop_at_raise(loan_items, idx + 1,
                                            Append(loans, loan_data), errs)
                      ELSE parse_loan_items_stop_at_raise(loan_items, idx + 1,
                                            loans, errs)

\* for idx, item in enumerate(loan_items): try ... except, from position idx.
RECURSIVE parse_loan_items(_, _, _, _)
parse_loan_items(loan_items, idx, loans, errs) ==
    IF idx >= Len(loan_items) THEN [ loans |-> loans, errors |-> errs ]
    ELSE LET item == loan_items[idx + 1]
         IN  IF item.raises
             THEN parse_loan_items(loan_items, idx + 1, loans,
                                   Append(errs, extraction_error_entry(idx)))
             ELSE LET loan_data == extract_loan_data(item, idx)
                  IN  IF loan_data.recipient # <<>>
                      THEN parse_loan_items(loan_items, idx + 1,
                                            Append(loans, loan_data), errs)
                      ELSE parse_loan_items(loan_items, idx + 1, loans, errs)

\* Mutant of parse_loan_html: total_loans counts the located fragments, not
\* the records kept.
parse_loan_html_count_located(document) ==
    LET done == parse_loan_items(loan_items_of(document), 0, <<>>, <<>>)
    IN  [ total_loans |-> Len(loan_items_of(document)),
          loans |-> done.loans,
          errors |-> done.errors ]

\* parse_loan_html(html_content): the dictionary it returns (search_query,
\* result_header and parsed_at are left out).
parse_loan_html(document) ==
    LET done == parse_loan_items(loan_items_of(document), 0, <<>>, <<>>)
    IN  [ total_loans |-> Len(done.loans),
          loans |-> done.loans,
          errors |-> done.errors ]

call_parse_loan_html ==
    /\ unit = "parse_loan_html"
    /\ calls < MaxCalls
    /\ result' = parse_loan_html(input)
    /\ calls' = calls + 1
    /\ last' = [ op |-> "parse_loan_html", previous |-> result ]
    /\ UNCHANGED <<unit, input, scraped_data, scraped_loans, errors>>

(* --------------------------- extract_loan_data ------------------------- *)

\* Each extractor is a function of the fragment alone: it is applied once to
\* the fragment the behaviour starts with.
call_extract_loan_data ==
    /\ unit = "record_extractor"
    /\ calls = 0
    /\ result' = extract_loan_data(input, 0)
    /\ calls' = calls + 1
    /\ last' = [ op |-> "extract_loan_data" ]
    /\ UNCHANGED <<unit, input, scraped_data, scraped_loans, errors>>

call__extract_loan_data ==
    /\ unit = "record_extractor"
    /\ calls = 0
    /\ result' = _extract_loan_data(input, 0)
    /\ calls' = calls + 1
    /\ last' = [ op |-> "_extract_loan_data" ]
    /\ UNCHANGED <<unit, input, scraped_data, scraped_loans, errors>>

(* ------------------------- PropublicaLoanSpider ------------------------ *)

\* The fragments the spider's documents are built from.
SpiderFragments == { FragStructural, FragNoRecipient, FragRaises }

SpiderDocuments == [ primary : SeqUpTo(SpiderFragments, MaxSpiderFrags), alt : AltLists ]

ErrorPage == [ primary |-> <<>>, alt |-> <<>> ]

\* A response the spider's parse is called with: its status and its document.
\* An error status comes with an error page or with a page of loans.
LoanResponses ==
    { [status |-> 200, document |-> d] : d \in SpiderDocuments }
    \cup
    { [status |-> st, document |-> d] :
        st \in {404, 500},
        d \in { ErrorPage, [primary |-> << FragStructural >>, alt |-> <<>>] } }

_http_error_entry(response) ==
    [ url |-> StartUrl,
      error_type |-> Chars("HTTPError"),
      status_code |-> response.status,
      message |-> Chars("HTTP ") \o Digits(response.status) \o Chars(" error") ]

no_data_entry ==
    [ url |-> StartUrl,
      error_type |-> Chars("NoDataFound"),
      message |-> Chars("No loan entries found on page. The page structure may have changed.") ]

\* Mutant of _parse_loan_items: every record is kept, whatever its recipient.
RECURSIVE _parse_loan_items_keep_all(_, _, _, _)
_parse_loan_items_keep_all(loan_items, idx, loans, errs) ==
    IF idx >= Len(loan_items) THEN [ scraped_loans |-> loans, errors |-> errs ]
    ELSE LET item == loan_items[idx + 1]
         IN  IF item.raises
             THEN _parse_loan_items_keep_all(loan_items, idx + 1, loans,
                                    Append(errs, extraction_error_entry(idx)))
             ELSE _parse_loan_items_keep_all(loan_items, idx + 1,
                                    Append(loans, _extract_loan_data(item, idx)), errs)

\* for idx, item in enumerate(loan_items): try ... except, from position idx.
RECURSIVE _parse_loan_items(_, _, _, _)
_parse_loan_items(loan_items, idx, loans, errs) ==
    IF idx >= Len(loan_items) THEN [ scraped_loans |-> loans, errors |-> errs ]
    ELSE LET item == loan_items[idx + 1]
         IN  IF item.raises
             THEN _parse_loan_items(loan_items, idx + 1, loans,
                                    Append(errs, extraction_error_entry(idx)))
             ELSE LET loan_data == _extract_loan_data(item, idx)
                  IN  IF loan_data.recipient # <<>>
                      THEN _parse_loan_items(loan_items, idx + 1,
                                             Append(loans, loan_data), errs)
                      ELSE _parse_loan_items(loan_items, idx + 1, loans, errs)

\* Mutant of PropublicaLoanSpider_parse_ledgers: no return after the HTTP
\* error is recorded, so the page is parsed all the same.
PropublicaLoanSpider_parse_ledgers_no_return(errs, loans, response) ==
    LET errs1 == IF response.status >= 400
                 THEN Append(errs, _http_error_entry(response))
                 ELSE errs
        loan_items == loan_items_of(response.document)
    IN  IF loan_items = <<>>
        THEN [ scraped_loans |-> loans, errors |-> Append(errs1, no_data_entry) ]
        ELSE _parse_loan_items(loan_items, 0, loans, errs1)

\* PropublicaLoanSpider.parse as a function of the two ledgers.
PropublicaLoanSpider_parse_ledgers(errs, loans, response) ==
    IF response.status >= 400
    THEN [ scraped_loans |-> loans, errors |-> Append(errs, _http_error_entry(response)) ]
    ELSE LET loan_items == loan_items_of(response.document)
         IN  IF loan_items = <<>>
             THEN [ scraped_loans |-> loans, errors |-> Append(errs, no_data_entry) ]
             ELSE _parse_loan_items(loan_items, 0, loans, errs)

PropublicaLoanSpider_parse(response) ==
    /\ unit = "PropublicaLoanSpider"
    /\ calls < MaxCalls
    /\ result = <<>>
    /\ LET after == PropublicaLoanSpider_parse_ledgers(errors, scraped_loans, response)
       IN  /\ errors' = after.errors
           /\ scraped_loans' = after.scraped_loans
    /\ calls' = calls + 1
    /\ last' = [ op |-> "parse", response |-> response,
                 errors0 |-> errors, data0 |-> scraped_loans ]
    /\ UNCHANGED <<unit, input, scraped_data, result>>

\* Mutant of PropublicaLoanSpider_handle_error_entry: the failure's type is
\* taken for missing, so the tag is 'Unknown'.
PropublicaLoanSpider_handle_error_entry_unknown(failure) ==
    [ url |-> StartUrl,
      error_type |-> Chars("Unknown"),
      message |-> failure.text ]

PropublicaLoanSpider_handle_error_entry(failure) ==
    [ url |-> StartUrl,
      error_type |-> failure.type,
      message |-> failure.text ]

PropublicaLoanSpider_handle_error(failure) ==
    /\ unit = "PropublicaLoanSpider"
    /\ calls < MaxCalls
    /\ result = <<>>
    /\ errors' = Append(errors, PropublicaLoanSpider_handle_error_entry(failure))
    /\ calls' = calls + 1
    /\ last' = [ op |-> "handle_error", failure |-> failure,
                 errors0 |-> errors, data0 |-> scraped_loans ]
    /\ UNCHANGED <<unit, input, scraped_data, scraped_loans, result>>

\* How run_scraper's try block ends: the crawl ran and the spider closed, the
\* crawl ended without a spider having been opened, or process.crawl /
\* process.start raised.
CrawlOutcomes == { "closed", "unopened", "raise" }

crawler_error_entry ==
    [ error_type |-> Chars("CrawlerError"),
      message |-> Chars("Crawler failed: ") \o Chars("boom") ]

\* The results dictionary of run_scraper(url) of propublica_scraper.py (url,
\* started_at, finished_at and success are left out).
run_scraper_results(outcome, loans, errs) ==
    IF outcome = "closed"
    THEN [ loans |-> loans, errors |-> errs, total_loans |-> Len(loans) ]
    ELSE IF outcome = "unopened"
    THEN [ loans |-> <<>>, errors |-> <<>>, total_loans |-> 0 ]
    ELSE [ loans |-> <<>>, errors |-> << crawler_error_entry >>, total_loans |-> 0 ]

\* run_scraper(url) coming to its results: once per crawl, after which the
\* spider gets no callback.
run_scraper(outcome) ==
    /\ unit = "PropublicaLoanSpider"
    /\ result = <<>>
    /\ outcome = "unopened" => calls = 0
    /\ result' = run_scraper_results(outcome, scraped_loans, errors)
    /\ last' = [ op |-> "run_scraper", outcome |-> outcome,
                 errors0 |-> errors, data0 |-> scraped_loans ]
    /\ UNCHANGED <<unit, input, calls, scraped_data, scraped_loans, errors>>

(* --------------------------- the specification ------------------------- *)

Units ==
    { "WordPressSpider", "PropublicaLoanSpider", "parse_loan_html",
      "record_extractor", "parse_amount", "_extract_wordpress_content" }

\* A spider starts with empty ledgers (__init__); a function unit starts with
\* the document or the fragment it is given.
InitUnit(u) ==
    /\ unit = u
    /\ input \in CASE u = "parse_loan_html" -> Documents
                   [] u = "record_extractor" -> Fragments
                   [] u = "parse_amount" -> AmountStrings
                   [] u = "_extract_wordpress_content" -> Pages
                   [] OTHER -> { <<>> }
    /\ calls = 0
    /\ scraped_data = <<>>
    /\ scraped_loans = <<>>
    /\ errors = <<>>
    /\ result = <<>>
    /\ last = [ op |-> "none" ]

Init == \E u \in Units : InitUnit(u)

NextWordPress ==
    \/ \E response \in Responses :
         \E extraction \in IF wp_proceeds(response) THEN ExtractionOutcomes
                           ELSE {"unreached"} :
            WordPressSpider_parse(response, extraction)
    \/ \E failure \in Failures : WordPressSpider_handle_error(failure)

NextPropublica ==
    \/ \E response \in LoanResponses : PropublicaLoanSpider_parse(response)
    \/ \E failure \in Failures : PropublicaLoanSpider_handle_error(failure)
    \/ \E outcome \in CrawlOutcomes : run_scraper(outcome)

NextLocal == call_parse_loan_html

NextExtractor == call_extract_loan_data \/ call__extract_loan_data

NextAmount == call_parse_amount \/ call__parse_amount

NextContent == call__extract_wordpress_content

Next ==
    \/ NextWordPress
    \/ NextPropublica
    \/ NextLocal
    \/ NextExtractor
    \/ NextAmount
    \/ NextContent

\* Every unit.
Spec == Init /\ [][Next]_vars

\* One WordPressSpider.
SpecWordPress == InitUnit("WordPressSpider") /\ [][NextWordPress]_vars

\* One spider of either kind.
SpecSpiders ==
    /\ InitUnit("WordPressSpider") \/ InitUnit("PropublicaLoanSpider")
    /\ [][NextWordPress \/ NextPropublica]_vars

\* The loan parsers: PropublicaLoanSpider, and parse_loan_html on a document.
SpecLoans ==
    /\ InitUnit("PropublicaLoanSpider") \/ InitUnit("parse_loan_html")
    /\ [][NextPropublica \/ NextLocal]_vars

\* parse_loan_html on a document.
SpecLocal == InitUnit("parse_loan_html") /\ [][NextLocal]_vars

\* extract_loan_data and _extract_loan_data on a fragment.
SpecExtractor == InitUnit("record_extractor") /\ [][NextExtractor]_vars

\* parse_amount and _parse_amount on a string, and parse_loan_html on a
\* document.
SpecAmount ==
    /\ InitUnit("parse_amount") \/ InitUnit("parse_loan_html")
    /\ [][NextAmount \/ NextLocal]_vars

\* _extract_wordpress_content on a page.
SpecContent == InitUnit("_extract_wordpress_content") /\ [][NextContent]_vars

(* ------------------------------ properties ----------------------------- *)

\* The entries a call appended to a ledger: those after the first n.
Appended(ledger, before) == SubSeq(ledger, Len(before) + 1, Len(ledger))

\* The ledger still starts with what it held before the call.
Extends(ledger, before) ==
    Len(ledger) >= Len(before) /\ SubSeq(ledger, 1, Len(before)) = before

\* The last call was WordPressSpider.parse.
WPParsed == unit = "WordPressSpider" /\ last.op = "parse"

\* The last call was PropublicaLoanSpider.parse.
PPParsed == unit = "PropublicaLoanSpider" /\ last.op = "parse"

\* The body holds a challenge fingerprint, compared without regard to case.
FingerprintIn(text) ==
    \E k \in 1..Len(cloudflare_indicators) :
        Contains(Lower(text), Lower(cloudflare_indicators[k]))

\* The Server header names the vendor.
ServerNamesVendor(response) == Contains(Lower(response.server), Chars("cloudflare"))

\* The call appended exactly one entry to errors, of this kind, and nothing
\* to the ledger of items.
OneErrorOfKind(kind, items) ==
    /\ Extends(errors, last.errors0)
    /\ Len(Appended(errors, last.errors0)) = 1
    /\ Appended(errors, last.errors0)[1].error_type = Chars(kind)
    /\ items = last.data0

\* C1: a response whose status is 503 or 520..524, or whose body holds a
\* challenge fingerprint in any letter case (at any status), makes
\* WordPressSpider.parse record one CloudflareProtection error and no
\* HTTPError.
C1_AntiBotPrecedence ==
    ( /\ WPParsed
      /\ \/ last.response.status \in {503, 520, 521, 522, 523, 524}
         \/ FingerprintIn(last.response.text) )
    => OneErrorOfKind("CloudflareProtection", scraped_data)

\* C1 witness: a 200 response whose body spells the fingerprint in capitals
\* was recorded as a challenge.
C1_Witness ==
    /\ WPParsed
    /\ last.response.status = 200
    /\ last.response.text = Chars("Performance by CLOUDFLARE")
    /\ errors[Len(errors)].error_type = Chars("CloudflareProtection")
    /\ errors[Len(errors)].status_code = 200

\* The 503 verdict: status 503 with an empty body is an anti-bot challenge.
Verdict503 ==
    (WPParsed /\ last.response.status = 503 /\ last.response.text = <<>>)
    => OneErrorOfKind("CloudflareProtection", scraped_data)

\* The 200 verdict: status 200 with a body free of fingerprints proceeds:
\* the extraction runs, so the call appends the page's data, or the
\* extraction's own error, and no gate error.
Verdict200 ==
    (WPParsed /\ last.response.status = 200 /\ ~FingerprintIn(last.response.text))
    => IF last.extraction = "ok"
       THEN /\ errors = last.errors0
            /\ Extends(scraped_data, last.data0)
            /\ Len(Appended(scraped_data, last.data0)) = 1
       ELSE /\ last.extraction = "raise"
            /\ OneErrorOfKind("ExtractionError", scraped_data)

\* The entry of an HTTP 404 error.
Is404NotFound(entry) ==
    /\ entry.error_type = Chars("HTTPError")
    /\ entry.status_code = 404
    /\ entry.message = Chars("Not Found")

\* C2 as stated: the three reference verdicts, the 404 one for every 404
\* response without a fingerprint in its body.
C2_Original ==
    /\ Verdict503
    /\ Verdict200
    /\ (WPParsed /\ last.response.status = 404 /\ ~FingerprintIn(last.response.text))
       => ( /\ OneErrorOfKind("HTTPError", scraped_data)
            /\ Is404NotFound(errors[Len(errors)]) )

\* C2 (amended): the three reference verdicts, the 404 one for the 404
\* responses without a fingerprint that do not carry both a Server header
\* naming the vendor and a non-empty CF-RAY header.
C2_ReferenceVerdicts ==
    /\ Verdict503
    /\ Verdict200
    /\ ( /\ WPParsed
         /\ last.response.status = 404
         /\ ~FingerprintIn(last.response.text)
         /\ ~( /\ ServerNamesVendor(last.response)
               /\ last.response.cf_ray \notin { <<>>, << <<>> >> } ) )
       => ( /\ OneErrorOfKind("HTTPError", scraped_data)
            /\ Is404NotFound(errors[Len(errors)]) )

\* C2 witness: a plain 404 was recorded as HTTPError 404 "Not Found".
C2_Witness ==
    /\ WPParsed
    /\ last.response.status = 404
    /\ ~FingerprintIn(last.response.text)
    /\ last.response.server = <<>>
    /\ Is404NotFound(errors[Len(errors)])

\* C3: a response the status rule and the body rule do not match is recorded
\* as a challenge only when the Server header names the vendor, the CF-RAY
\* header is present and the status is at least 400; so a response with
\* status below 400 and no fingerprint in its body is never blocked.
C3_HeaderRuleConjunction ==
    ( /\ WPParsed
      /\ last.response.status \notin {503, 520, 521, 522, 523, 524}
      /\ ~FingerprintIn(last.response.text) )
    => /\ ( /\ Len(errors) > Len(last.errors0)
            /\ errors[Len(errors)].error_type = Chars("CloudflareProtection") )
          => ( /\ ServerNamesVendor(last.response)
               /\ last.response.cf_ray # <<>>
               /\ last.response.status >= 400 )
       /\ last.response.status < 400
          => \/ errors = last.errors0
             \/ OneErrorOfKind("ExtractionError", scraped_data)

\* C3 witness: a 200 response carrying both vendor headers and a clean body
\* went through the gate and its data was recorded.
C3_Witness ==
    /\ WPParsed
    /\ last.response.status = 200
    /\ ServerNamesVendor(last.response)
    /\ last.response.cf_ray = << Chars("8a1f-ORD") >>
    /\ ~FingerprintIn(last.response.text)
    /\ errors = last.errors0
    /\ Len(scraped_data) = Len(last.data0) + 1

\* No anti-bot rule matches the response.
NoAntiBotRule(response) ==
    /\ response.status \notin {503, 520, 521, 522, 523, 524}
    /\ ~FingerprintIn(response.text)
    /\ ~( /\ ServerNamesVendor(response)
          /\ response.cf_ray \notin { <<>>, << <<>> >> }
          /\ response.status >= 400 )

\* C4: a response with status >= 400 that no anti-bot rule matches is
\* recorded as one HTTPError carrying its status, with the table's message and
\* suggestion: "Not Found" for 404, and for 418, which the table lacks,
\* "HTTP Error 418" and the generic suggestion.
C4_HttpErrorFromTable ==
    (WPParsed /\ last.response.status >= 400 /\ NoAntiBotRule(last.response))
    => /\ OneErrorOfKind("HTTPError", scraped_data)
       /\ LET entry == errors[Len(errors)]
          IN  /\ entry.status_code = last.response.status
              /\ last.response.status = 404
                 => /\ entry.message = Chars("Not Found")
                    /\ entry.suggestion =
                         "The requested page doesn't exist. Check if the URL is correct."
              /\ last.response.status = 418
                 => /\ entry.message = Chars("HTTP Error 418")
                    /\ entry.suggestion = "Unexpected HTTP error occurred."

\* C4 witness: a 418 response was recorded with the generic message.
C4_Witness ==
    /\ WPParsed
    /\ last.response.status = 418
    /\ NoAntiBotRule(last.response)
    /\ errors[Len(errors)].message = Chars("HTTP Error 418")

\* C5: when the gate blocks a response (a challenge or a status >= 400 in
\* WordPressSpider.parse, a status >= 400 in PropublicaLoanSpider.parse) the
\* call appends exactly one error and no item.
C5_GateTerminal ==
    /\ ( /\ WPParsed
         /\ \/ last.response.status >= 400
            \/ FingerprintIn(last.response.text) )
       => /\ Extends(errors, last.errors0)
          /\ Len(Appended(errors, last.errors0)) = 1
          /\ scraped_data = last.data0
    /\ (PPParsed /\ last.response.status >= 400)
       => /\ OneErrorOfKind("HTTPError", scraped_loans)
          /\ errors[Len(errors)].status_code = last.response.status

\* C5 witness: a 404 response whose page holds a loan fragment left one error
\* after an earlier call had recorded a loan, and added no loan.
C5_Witness ==
    /\ PPParsed
    /\ last.response.status = 404
    /\ last.response.document.primary = << FragStructural >>
    /\ Len(last.data0) = 1
    /\ scraped_loans = last.data0
    /\ Len(errors) = Len(last.errors0) + 1

\* The last call was a spider's handle_error, for a failure that is no
\* IgnoreRequest: the request never reached a response.
TransportFailed == last.op = "handle_error" /\ ~last.failure.ignore

\* The subkind of a failure, from the name of its exception class: DNS,
\* Timeout, ConnectionRefused, TLS, Other, the first that matches.
Subkind(failure) ==
    IF Contains(failure.type, Chars("DNSLookupError")) THEN "DNS"
    ELSE IF Contains(failure.type, Chars("TimeoutError"))
            \/ Contains(failure.type, Chars("TCPTimedOut")) THEN "Timeout"
    ELSE IF Contains(failure.type, Chars("ConnectionRefused")) THEN "ConnectionRefused"
    ELSE IF Contains(failure.type, Chars("SSLError")) THEN "TLS"
    ELSE "Other"

\* The message that tells the subkind of the failure.
SubkindMessage(failure) ==
    CASE Subkind(failure) = "DNS" -> Chars("DNS lookup failed for domain.")
      [] Subkind(failure) = "Timeout" ->
            Chars("Connection timed out while trying to reach the server.")
      [] Subkind(failure) = "ConnectionRefused" ->
            Chars("Connection was refused by the server.")
      [] Subkind(failure) = "TLS" -> Chars("SSL/TLS certificate verification failed.")
      [] OTHER -> Chars("Request failed: ") \o failure.text

\* The call appended exactly one entry, whose message tells the failure's
\* subkind and which carries a suggestion of what to do.
ClassifiedEntry ==
    /\ Extends(errors, last.errors0)
    /\ Len(Appended(errors, last.errors0)) = 1
    /\ errors[Len(errors)].message = SubkindMessage(last.failure)
    /\ "suggestion" \in DOMAIN errors[Len(errors)]

\* WordPressSpider.handle_error classifies the failure and appends the one
\* entry of its subkind.
WordPressClassifies ==
    (unit = "WordPressSpider" /\ TransportFailed) => ClassifiedEntry

\* C6: after handle_error of either spider on a transport failure, errors has
\* grown by exactly one entry, whose message is that of the failure's subkind
\* (DNS, Timeout, ConnectionRefused, TLS, Other, first match in that order)
\* and which carries a suggestion.
C6_TransportClassified ==
    /\ WordPressClassifies
    /\ (unit = "PropublicaLoanSpider" /\ TransportFailed) => ClassifiedEntry

\* The fragments parse_loan_html located in its document.
LocalItems == loan_items_of(input)

\* The last call was parse_loan_html.
LocalParsed == unit = "parse_loan_html" /\ last.op = "parse_loan_html"

\* The last call was PropublicaLoanSpider.parse and it reached the loop over
\* the fragments.
PPLooped ==
    /\ PPParsed
    /\ last.response.status < 400
    /\ loan_items_of(last.response.document) # <<>>

\* The positions (from 1) of the fragments that raise, of those that yield a
\* record with a recipient, and of those that yield an empty recipient.
RaisingPositions(items) == { i \in 1..Len(items) : items[i].raises }

NamedPositions(items) ==
    { i \in 1..Len(items) : ~items[i].raises /\ Strip(items[i].recipient) # <<>> }

UnnamedPositions(items) ==
    { i \in 1..Len(items) : ~items[i].raises /\ Strip(items[i].recipient) = <<>> }

\* The message of the ExtractionError for the fragment at position i: it
\* names the fragment by i - 1, its place counted from 0.
ExtractionMessage(i) ==
    Chars("Failed to extract loan ") \o Digits(i - 1) \o Chars(": ") \o Chars("boom")

\* The entries of errs about the fragment at position i.
ErrorsAbout(errs, i) ==
    { k \in 1..Len(errs) :
        /\ errs[k].error_type = Chars("ExtractionError")
        /\ errs[k].message = ExtractionMessage(i) }

\* The records of loans made from the fragment at position i.
RecordsOf(loans, i) == { k \in 1..Len(loans) : loans[k].index = i }

\* One raising fragment costs one error and no other fragment's record.
Isolated(items, loans, errs) ==
    /\ \A i \in RaisingPositions(items) : Cardinality(ErrorsAbout(errs, i)) = 1
    /\ Len(errs) = Cardinality(RaisingPositions(items))
    /\ \A j \in NamedPositions(items) :
          \E k \in RecordsOf(loans, j) :
              loans[k].recipient = Strip(items[j].recipient)

\* C7: in parse_loan_html and in the loop of PropublicaLoanSpider.parse, each
\* fragment that raises leaves exactly one ExtractionError, whose message
\* names the fragment's place counted from 0, and no other error is added;
\* every fragment that does not raise and has a non-empty recipient has its
\* record among the loans, whatever raised before it.
C7_FailureIsolation ==
    /\ LocalParsed => Isolated(LocalItems, result.loans, result.errors)
    /\ PPLooped =>
          /\ Extends(errors, last.errors0)
          /\ Extends(scraped_loans, last.data0)
          /\ Isolated(loan_items_of(last.response.document),
                      Appended(scraped_loans, last.data0),
                      Appended(errors, last.errors0))

\* C7 witness: the second of three fragments raised; the first and the third
\* are recorded and the one error names place 1.
C7_Witness ==
    /\ LocalParsed
    /\ LocalItems = << FragStructural, FragRaises, FragHeuristic >>
    /\ Len(result.loans) = 2
    /\ result.loans[2].index = 3
    /\ Len(result.errors) = 1
    /\ result.errors[1].message = ExtractionMessage(2)

\* No record and no error is about a fragment whose recipient is empty.
UnnamedDropped(items, loans, errs) ==
    \A i \in UnnamedPositions(items) :
        /\ RecordsOf(loans, i) = {}
        /\ ErrorsAbout(errs, i) = {}
        /\ \A k \in 1..Len(loans) : loans[k].recipient # <<>>

\* C8: a fragment that does not raise and whose recipient is empty once
\* stripped adds no record and no error, in parse_loan_html and in
\* PropublicaLoanSpider.parse.
C8_EmptyRecipientDropped ==
    /\ LocalParsed => UnnamedDropped(LocalItems, result.loans, result.errors)
    /\ PPLooped =>
          UnnamedDropped(loan_items_of(last.response.document),
                         Appended(scraped_loans, last.data0),
                         Appended(errors, last.errors0))

\* C8 witness: the spider parsed a page whose first fragment has a blank
\* recipient: only the second is recorded and no error is added.
C8_Witness ==
    /\ PPLooped
    /\ last.response.document.primary = << FragNoRecipient, FragStructural >>
    /\ Len(scraped_loans) = Len(last.data0) + 1
    /\ scraped_loans[Len(scraped_loans)].index = 2
    /\ errors = last.errors0

\* The position of the fragment an ExtractionError is about.
ErrorPosition(entry) ==
    CHOOSE i \in 1..Len(LocalItems) : entry.message = ExtractionMessage(i)

\* C9: the loans parse_loan_html returns carry indexes that are positions of
\* fragments (from 1), each record made from the fragment at its index, and
\* strictly increasing along the sequence; the errors are about raising
\* fragments, in the order of their positions.
C9_RecordOrder ==
    LocalParsed =>
       LET loans == result.loans
           errs == result.errors
       IN  /\ \A k \in 1..Len(loans) :
                 /\ loans[k].index \in NamedPositions(LocalItems)
                 /\ loans[k].recipient = Strip(LocalItems[loans[k].index].recipient)
           /\ \A k \in 1..(Len(loans) - 1) : loans[k].index < loans[k + 1].index
           /\ \A k \in 1..Len(errs) :
                 /\ \E i \in RaisingPositions(LocalItems) :
                       errs[k].message = ExtractionMessage(i)
           /\ \A k \in 1..(Len(errs) - 1) :
                 ErrorPosition(errs[k]) < ErrorPosition(errs[k + 1])

\* C9 witness: the middle fragment was dropped for its blank recipient and
\* the records carry the indexes 1 and 3, in that order.
C9_Witness ==
    /\ LocalParsed
    /\ Len(LocalItems) = 3
    /\ 2 \in UnnamedPositions(LocalItems)
    /\ Len(result.loans) = 2
    /\ result.loans[1].index = 1
    /\ result.loans[2].index = 3

FieldNames == { "location", "loan_status", "loan_amount", "date_approved" }

\* The last call was one of the two record extractors.
Extracted ==
    unit = "record_extractor" /\ last.op \in {"extract_loan_data", "_extract_loan_data"}

\* C10: in the record either extractor returns, each of location,
\* loan_status, loan_amount and date_approved for which the label/value
\* blocks gave a non-empty value holds that value: what the pass over the free
\* values finds never replaces it.
C10_StructuralWins ==
    Extracted =>
       \A field \in FieldNames :
           structural_fields(input)[field] # <<>>
             => result[field] = structural_fields(input)[field]

\* C10 witness: the blocks gave a location and no amount, so the pass over
\* the free values ran on a fragment whose first value reads as a location;
\* the record keeps the location of the block.
C10_Witness ==
    /\ Extracted
    /\ last.op = "extract_loan_data"
    /\ structural_fields(input).location = Chars("Some Place, Texas")
    /\ structural_fields(input).loan_amount = <<>>
    /\ heuristic_pass(all_values_of(input), EmptyFields).location = Chars("Austin, TX")
    /\ result.location = Chars("Some Place, Texas")

(* ------------------------- the recognizers' shapes --------------------- *)

\* The shapes a free text value is recognized by: money (a leading currency
\* sign), a date (a month token), a status (a keyword of the status list that
\* both extractors share) and a location (exactly two comma-separated
\* segments, the second of length 2 once trimmed).
MoneyShaped(val) == StartsWith(val, Chars("$"))

DateShaped(val) == \E month \in months : Contains(val, month)

StatusShaped(val) == \E keyword \in _status_keywords : Contains(val, keyword)

LocationShaped(val) ==
    /\ Contains(val, Chars(","))
    /\ SplitCount(val, ",") = 2
    /\ Len(Strip(SplitSecond(val, ","))) = 2

Recognizes(field, val) ==
    CASE field = "location" -> LocationShaped(val)
      [] field = "loan_amount" -> MoneyShaped(val)
      [] field = "loan_status" -> StatusShaped(val)
      [] field = "date_approved" -> DateShaped(val)

\* The value has the shape of this field and of no other.
OnlyRecognizedAs(field, val) ==
    /\ Recognizes(field, val)
    /\ \A other \in FieldNames \ {field} : ~Recognizes(other, val)

\* The first of the fragment's text values with the shape of the field, or
\* the empty text when none has it.
FirstRecognized(field, item) ==
    LET vals == all_values_of(item)
        hits == { i \in 1..Len(vals) : Recognizes(field, vals[i]) }
    IN  IF hits = {} THEN <<>>
        ELSE vals[CHOOSE i \in hits : \A j \in hits : i <= j]

\* A value the pass over the free values can give to this field only: it has
\* the shape of the field alone, and no comma unless the field is location.
MeantFor(field, val) ==
    /\ OnlyRecognizedAs(field, val)
    /\ field # "location" => ~Contains(val, Chars(","))

\* C11: in the record either extractor returns, a field the label/value
\* blocks left empty is filled whenever one of the fragment's text values has
\* the shape of that field alone (and no comma that could make it a
\* location), whatever the blocks gave for the other fields.
C11_PerFieldTrigger ==
    Extracted =>
       \A field \in FieldNames :
           ( /\ structural_fields(input)[field] = <<>>
             /\ \E i \in 1..Len(all_values_of(input)) :
                   MeantFor(field, all_values_of(input)[i]) )
           => result[field] # <<>>

\* C11 divergence: _extract_loan_data found the location in its block, so it
\* never looked at the free value "Paid in Full" and the status stays empty.
C11_Witness ==
    /\ Extracted
    /\ last.op = "_extract_loan_data"
    /\ input.nodes = << Node("Location", "Austin, TX"), FreeNode(" Paid in Full ") >>
    /\ result.location = Chars("Austin, TX")
    /\ result.loan_status = <<>>

\* Both extractors run the pass over the free values: the blocks gave neither
\* a location nor a loan amount.
BothPassesRun ==
    /\ Extracted
    /\ structural_fields(input).location = <<>>
    /\ structural_fields(input).loan_amount = <<>>

\* How many of the fragment's text values are this text.
Occurrences(item, val) ==
    Cardinality({ i \in 1..Len(all_values_of(item)) : all_values_of(item)[i] = val })

\* C12: when the pass over the free values runs, each field the blocks left
\* empty holds the first text value with the shape of that field (so the
\* first value starting with '$' is the loan amount and the first with a month
\* token the date, comma or not), and two fields hold the same text only if
\* the fragment has that text twice.
C12_FirstMatchPerField ==
    BothPassesRun =>
       /\ \A field \in FieldNames :
             structural_fields(input)[field] = <<>>
               => result[field] = FirstRecognized(field, input)
       /\ \A f1 \in FieldNames : \A f2 \in FieldNames \ {f1} :
             ( /\ structural_fields(input)[f1] = <<>>
               /\ structural_fields(input)[f2] = <<>>
               /\ result[f1] # <<>>
               /\ result[f1] = result[f2] )
             => Occurrences(input, result[f1]) >= 2

\* C12 divergence: extract_loan_data met "$1,234" and "April 3, 2020" while
\* the location was empty; each has one comma, so each was spent on the
\* location test and the record has neither an amount nor a date.
C12_Witness ==
    /\ BothPassesRun
    /\ last.op = "extract_loan_data"
    /\ input.nodes = << FreeNode("$1,234"), FreeNode("April 3, 2020") >>
    /\ result.loan_amount = <<>>
    /\ result.date_approved = <<>>
    /\ result.location = <<>>

\* C13: the location either extractor takes from the free values has exactly
\* two comma-separated segments, the second of length 2 once trimmed: when
\* the pass runs and the blocks gave no location, the record's location is
\* the first text value of that shape ("Austin, TX"), or empty when there is
\* none ("Some Place, Texas" is never taken).
C13_LocationRecognizer ==
    BothPassesRun =>
       /\ result.location = FirstRecognized("location", input)
       /\ result.location # Chars("Some Place, Texas")
       /\ (\E i \in 1..Len(all_values_of(input)) :
              all_values_of(input)[i] = Chars("Austin, TX"))
          => result.location # <<>>

\* C13 divergence: _extract_loan_data took "Some Place, Texas" as the
\* location.
C13_Witness ==
    /\ BothPassesRun
    /\ last.op = "_extract_loan_data"
    /\ input.nodes = << FreeNode("Some Place, Texas"), FreeNode("Austin, TX") >>
    /\ result.location = Chars("Some Place, Texas")

\* The last call was one of the two amount parsers.
AmountParsed == unit = "parse_amount" /\ last.op \in {"parse_amount", "_parse_amount"}

\* The string without its '$', ',' and blanks.
Bare(text) == SelectSeq(text, LAMBDA c : c \notin {"$", ",", " "})

\* C14: parse_amount and _parse_amount never raise for a string: they give
\* None or a number; None for the empty string, for "N/A" and for a string
\* that is not a number once '$', ',' and blanks are removed; the number the
\* digits write when only digits are left, and 1234567.0 for "$1,234,567.00".
\* In parse_loan_html a record whose amount is None is a record all the same,
\* and the only errors are those of the fragments that raise.
C14_AmountNeverRaises ==
    /\ AmountParsed =>
          /\ result.tag \in {"None", "float", "inf", "nan"}
          /\ input \in { <<>>, Chars("N/A"), Chars("Austin, TX") } => result = None
          /\ input = Chars("$1,234,567.00")
                => result = Outcome("float", FALSE, 1234567, <<>>)
          /\ (Bare(input) # <<>> /\ AllDigits(Bare(input)))
                => result = Outcome("float", FALSE, IntOf(Bare(input)), <<>>)
          /\ (input # <<>> /\ Bare(input) = <<>>) => result = None
    /\ LocalParsed =>
          /\ \A k \in 1..Len(result.loans) :
                /\ result.loans[k].loan_amount_numeric.tag \in {"None", "float"}
                /\ result.loans[k].loan_amount = <<>>
                      => result.loans[k].loan_amount_numeric = None
          /\ Len(result.loans) = Cardinality(NamedPositions(LocalItems))
          /\ Len(result.errors) = Cardinality(RaisingPositions(LocalItems))

\* C14 witness: parse_amount turned "$1,234,567.00" into 1234567.0.
C14_Witness ==
    /\ AmountParsed
    /\ last.op = "parse_amount"
    /\ input = Chars("$1,234,567.00")
    /\ result.tag = "float"
    /\ result.int = 1234567
    /\ result.frac = <<>>

\* C15: a second parse_loan_html on the same document returns what the first
\* returned, and after PropublicaLoanSpider.parse the spider's ledgers hold
\* the records and errors of that call alone, none from an earlier call.
C15_NoStateAcrossInvocations ==
    /\ (LocalParsed /\ calls >= 2) => result = last.previous
    /\ PPParsed =>
          /\ scraped_loans = Appended(scraped_loans, last.data0)
          /\ errors = Appended(errors, last.errors0)

\* C15 divergence: the spider parsed the same one-loan page twice and its
\* ledger holds the loan twice.
C15_Witness ==
    /\ PPParsed
    /\ last.response.document.primary = << FragStructural >>
    /\ Len(last.data0) = 1
    /\ scraped_loans = last.data0 \o last.data0

\* The fragments a document's boundary selectors locate: those of the primary
\* selector, and those of the alternative one only when the primary has none.
Located(document) ==
    IF document.primary # <<>> THEN document.primary ELSE document.alt

\* The records are those of the located fragments, and a document without a
\* located fragment gives no record and exactly one NoDataFound entry.
FallbackAndNoRecords(document, loans, errs) ==
    /\ Len(loans) = Cardinality(NamedPositions(Located(document)))
    /\ \A k \in 1..Len(loans) :
          loans[k].recipient = Strip(Located(document)[loans[k].index].recipient)
    /\ Located(document) = <<>>
          => /\ loans = <<>>
             /\ Len(errs) = 1
             /\ errs[1].error_type = Chars("NoDataFound")
    /\ Located(document) # <<>>
          => \A k \in 1..Len(errs) : errs[k].error_type # Chars("NoDataFound")

\* C16: parse_loan_html and PropublicaLoanSpider.parse take the fragments of
\* the alternative selector only when the primary selector finds none, and
\* when neither finds a fragment they return no record and exactly one
\* NoDataFound entry.
C16_BoundaryFallback ==
    /\ LocalParsed => FallbackAndNoRecords(input, result.loans, result.errors)
    /\ (PPParsed /\ last.response.status < 400)
          => FallbackAndNoRecords(last.response.document,
                                  Appended(scraped_loans, last.data0),
                                  Appended(errors, last.errors0))

\* C16 divergence: parse_loan_html on a document where no selector finds a
\* fragment returned no loan and no error entry at all.
C16_Witness ==
    /\ LocalParsed
    /\ input.primary = <<>>
    /\ input.alt = <<>>
    /\ result.total_loans = 0
    /\ result.errors = <<>>

\* The tags of the taxonomy as the code spells them: CloudflareProtection for
\* the anti-bot challenge, NoDataFound for no records found, and for a
\* transport failure the name of its exception class, which Subkind sorts into
\* DNS, Timeout, ConnectionRefused, TLS and Other.
TaxonomyTags ==
    { Chars("CloudflareProtection"), Chars("HTTPError"), Chars("ExtractionError"),
      Chars("NoDataFound") }
    \cup { failure.type : failure \in Failures }

\* The last call was run_scraper coming to its results.
ScraperRan == unit = "PropublicaLoanSpider" /\ last.op = "run_scraper"

C18_SuggestionForGateCases ==
    unit = "WordPressSpider" =>
       \A k \in 1..Len(errors) :
           ("suggestion" \in DOMAIN errors[k])
             <=> errors[k].error_type # Chars("ExtractionError")

\* C18 divergence: a 503 response was recorded as CloudflareProtection, in an
\* entry without a suggestion.
C18_Witness ==
    /\ WPParsed
    /\ last.response.status = 503
    /\ Len(errors) = Len(last.errors0) + 1
    /\ errors[Len(errors)].error_type = Chars("CloudflareProtection")
    /\ "suggestion" \notin DOMAIN errors[Len(errors)]

\* The label that names each field in a label/value block.
FieldLabel ==
    [ location |-> Chars("Location"), loan_status |-> Chars("Loan Status"),
      loan_amount |-> Chars("Loan Amount"), date_approved |-> Chars("Date Approved") ]

\* The first non-empty value among the fragment's blocks whose label names
\* the field, or the empty text when there is none.
FirstStructural(field, item) ==
    LET blocks == blocks_of(item)
        hits == { i \in 1..Len(blocks) :
                    /\ Contains(Strip(blocks[i].label), FieldLabel[field])
                    /\ Strip(blocks[i].value) # <<>> }
    IN  IF hits = {} THEN <<>>
        ELSE Strip(blocks[CHOOSE i \in hits : \A j \in hits : i <= j].value)

\* C19: in the record either extractor returns, a field named by a block
\* with a non-empty value holds the first such value: a later block with the
\* same label, empty or not, does not replace it.
C19_FirstNonEmptyStructural ==
    Extracted =>
       \A field \in FieldNames :
           FirstStructural(field, input) # <<>>
             => result[field] = FirstStructural(field, input)

\* C19 divergence: of two Location blocks the record has the value of the
\* second.
C19_Witness ==
    /\ Extracted
    /\ input.nodes = << Node("Location", "Austin, TX"),
                        Node("Location", "Some Place, Texas") >>
    /\ result.location = Chars("Some Place, Texas")

\* The last call was _extract_wordpress_content.
ContentExtracted ==
    unit = "_extract_wordpress_content" /\ last.op = "_extract_wordpress_content"

\* The texts of a selector, trimmed, the blank ones dropped.
Trimmed(content) ==
    SelectSeq([i \in 1..Len(content) |-> Strip(content[i])], LAMBDA c : c # <<>>)

\* The value of the first selector of the list with a non-blank text, or the
\* empty list when no selector has one.
FirstYield(selectors, page) ==
    LET hits == { i \in 1..Len(selectors) : Trimmed(page[selectors[i]]) # <<>> }
    IN  IF hits = {} THEN <<>>
        ELSE Trimmed(page[selectors[CHOOSE i \in hits : \A j \in hits : i <= j]])

\* C20: each field _extract_wordpress_content returns holds the trimmed texts
\* of the first selector of its list that matches a non-blank text, a
\* selector matching only blank text being passed over, and the empty list
\* when no selector matches one.
C20_FirstYieldingSelector ==
    ContentExtracted =>
       \A field \in DOMAIN WP_SELECTORS :
           result[field] = FirstYield(WP_SELECTORS[field], input)

\* C20 divergence: '.entry-meta' matched only blank text and '.post-meta'
\* matched " Hello "; post_meta is the empty list.
C20_Witness ==
    /\ ContentExtracted
    /\ input[".entry-meta"] = << Chars("   ") >>
    /\ input[".post-meta"] = << Chars(" Hello ") >>
    /\ result.post_meta = <<>>

\* The statuses _is_cloudflare_challenge takes for a challenge by themselves.
ChallengeStatuses == {503, 520, 521, 522, 523, 524}

\* The positions of the HTTPError entries of the error ledger.
HTTPErrorEntries ==
    { i \in 1..Len(errors) : errors[i].error_type = Chars("HTTPError") }

\* C21: no HTTPError entry of WordPressSpider has a status code among 503 and
\* 520..524, and none carries the "Service Unavailable" name of the 503 row of
\* the status table: the challenge test takes these responses first.
C21_NoChallengeStatusAsHTTPError ==
    unit = "WordPressSpider" =>
       \A i \in HTTPErrorEntries :
           /\ errors[i].status_code \notin ChallengeStatuses
           /\ errors[i].message # Chars("Service Unavailable")

\* C21 witness: after an HTTPError entry was recorded, a 503 response with no
\* fingerprint in its body and no vendor header was parsed and recorded as a
\* challenge with status code 503.
C21_Witness ==
    /\ WPParsed
    /\ last.response.status = 503
    /\ last.response.text = <<>>
    /\ last.response.server = <<>>
    /\ \E i \in 1..Len(last.errors0) : last.errors0[i].error_type = Chars("HTTPError")
    /\ Appended(errors, last.errors0) = << cloudflare_entry(last.response) >>

\* The ledger grew by exactly one entry at its end.
OneAppended(ledger, before) ==
    Extends(ledger, before) /\ Len(ledger) = Len(before) + 1

\* The last call was WordPressSpider.handle_error.
WPFailed == unit = "WordPressSpider" /\ last.op = "handle_error"

\* C22: a call of WordPressSpider.parse appends one item to scraped_data and
\* leaves errors as it was, or appends one entry to errors and leaves
\* scraped_data as it was; a call of handle_error removes and rewrites nothing
\* in either ledger.
C22_OneAppendPerParse ==
    /\ WPParsed =>
          \/ OneAppended(scraped_data, last.data0) /\ errors = last.errors0
          \/ OneAppended(errors, last.errors0) /\ scraped_data = last.data0
    /\ WPFailed =>
          Extends(errors, last.errors0) /\ Extends(scraped_data, last.data0)

\* C22 witness: with an entry already in errors, parse proceeded to the
\* extraction, which raised: one entry more in errors, scraped_data as before.
C22_Witness ==
    /\ WPParsed
    /\ last.extraction = "raise"
    /\ last.errors0 # <<>>
    /\ errors = Append(last.errors0, wp_extraction_error_entry)
    /\ scraped_data = last.data0

\* The fragments the last call of PropublicaLoanSpider.parse located: none
\* when it returned at the status test, before any selector was applied.
PPLocated ==
    IF last.response.status >= 400 THEN <<>>
    ELSE loan_items_of(last.response.document)

\* The entries of errs recorded for a fragment whose extraction raised.
ExtractionErrors(errs) ==
    { k \in 1..Len(errs) : errs[k].error_type = Chars("ExtractionError") }

\* Each fragment of items went one way only: to a record of loans, to an
\* ExtractionError of errs, or to neither when its recipient is empty; the
\* three ways together make up the fragments, and the records and the
\* `counted` entries of errs are no more than the fragments.
AccountedFor(items, loans, errs, counted) ==
    /\ \A i \in 1..Len(items) :
          /\ Cardinality(RecordsOf(loans, i)) + Cardinality(ErrorsAbout(errs, i)) <= 1
          /\ i \in UnnamedPositions(items)
                <=> RecordsOf(loans, i) = {} /\ ErrorsAbout(errs, i) = {}
    /\ Len(loans) + Cardinality(ExtractionErrors(errs))
          + Cardinality(UnnamedPositions(items)) = Len(items)
    /\ Len(loans) + counted <= Len(items)

\* total_loans is the number of records, and every record names a recipient.
CountedAndNamed(r) ==
    /\ r.total_loans = Len(r.loans)
    /\ \A k \in 1..Len(r.loans) : r.loans[k].recipient # <<>>

\* The records and entries the last call of PropublicaLoanSpider.parse added.
PPNewLoans == Appended(scraped_loans, last.data0)

PPNewErrors == Appended(errors, last.errors0)

\* C23 as stated: the fragments located by parse_loan_html, and by a call of
\* PropublicaLoanSpider.parse, are each accounted for once, and the records
\* plus all the error entries recorded are no more than the fragments
\* located; total_loans of a result is the number of its loans and every
\* record names a recipient.
C23_RecordsPlusErrors ==
    /\ LocalParsed =>
          /\ AccountedFor(LocalItems, result.loans, result.errors, Len(result.errors))
          /\ CountedAndNamed(result)
    /\ PPParsed =>
          /\ AccountedFor(PPLocated, PPNewLoans, PPNewErrors, Len(PPNewErrors))
          /\ \A k \in 1..Len(scraped_loans) : scraped_loans[k].recipient # <<>>
    /\ ScraperRan => CountedAndNamed(result)

\* C23 (amended): as above, the error entries counted against the fragments
\* being the ExtractionError entries only; an entry about the response or the
\* document as a whole (HTTPError, NoDataFound) stands for no fragment.
C23_FragmentsAccounted ==
    /\ LocalParsed =>
          /\ AccountedFor(LocalItems, result.loans, result.errors,
                          Cardinality(ExtractionErrors(result.errors)))
          /\ CountedAndNamed(result)
    /\ PPParsed =>
          /\ AccountedFor(PPLocated, PPNewLoans, PPNewErrors,
                          Cardinality(ExtractionErrors(PPNewErrors)))
          /\ \A k \in 1..Len(scraped_loans) : scraped_loans[k].recipient # <<>>
    /\ ScraperRan => CountedAndNamed(result)

\* C23 witness: run_scraper reports a crawl of two pages, one with a fragment
\* that gave a record and a fragment that raised, one with no fragment: one
\* loan counted, and errors holding an ExtractionError and a NoDataFound
\* entry.
C23_Witness ==
    /\ ScraperRan
    /\ last.outcome = "closed"
    /\ result.total_loans = 1
    /\ Len(result.loans) = 1
    /\ Len(result.errors) = 2
    /\ \E k \in 1..2 : result.errors[k].error_type = Chars("ExtractionError")
    /\ \E k \in 1..2 : result.errors[k].error_type = Chars("NoDataFound")

====
